---- MODULE Spec2Model ----
(***************************************************************************)
(* A model of the layered memory subsystem of PMIAgent                     *)
(* (src/src/middleware/layered_memory.py): WorkingMemory, SessionMemory,   *)
(* LongTermMemory and LayeredMemoryMiddleware.                             *)
(*                                                                         *)
(* Conventions.                                                            *)
(*  - A text is a sequence of characters (one-character strings), so that  *)
(*    str.lower(), the substring test `in` and str.strip() are computed.   *)
(*  - An importance is kept in tenths: 10 is 1.0, 8 is 0.8, 7 is 0.7.      *)
(*  - time.time() reads the variable now, which never decreases.           *)
(***************************************************************************)
EXTENDS Integers, Sequences, FiniteSets, TLC

\* ------------------------------------------------------------------ bounds
\* Largest capacity a WorkingMemory is constructed with in SpecWM.
MaxSize == 3
\* Largest number of WorkingMemory.add calls in one behaviour of SpecWM.
MaxAdds == 4

\* Latest clock reading of a behaviour of SpecLTM.
MaxTime == 2
\* Largest number of LongTermMemory calls in one behaviour of SpecLTM.
MaxOps == 3
\* len(semantic_memory) above which add_semantic_memory prunes, and the number
\* of items it keeps: 1000 and 800 in layered_memory.py:207,211, scaled down.
SemanticLimit == 3
SemanticKeep == 2
\* len(episodic_memory) above which add_episodic_memory prunes, and the number
\* of items it keeps: 500 and 400 in layered_memory.py:228,230, scaled down.
EpisodicLimit == 3
EpisodicKeep == 2

VARIABLES
    items,            \* WorkingMemory.items: the deque, oldest entry first
    max_size,         \* WorkingMemory.max_size: the deque's maxlen
    now,              \* the wall clock read by time.time()
    added,            \* history: the contents passed to WorkingMemory.add, in call order
    semantic_memory,  \* LongTermMemory.semantic_memory
    episodic_memory,  \* LongTermMemory.episodic_memory
    call,             \* the latest call: its name, its arguments, its number
    result,           \* what the latest call returned, or how it ended
    constructed,      \* whether LayeredMemoryMiddleware.__init__ has run
    config,           \* the enable_* and legacy_mode arguments of __init__
    backend,          \* the backend: each memory file, and whether its writes succeed
    session_memory,   \* LayeredMemoryMiddleware.session_memory, by session id
    last_save_time,   \* LayeredMemoryMiddleware.last_save_time
    request,          \* the host's ModelRequest objects
    pc,               \* where the invocation on each request object stands
    before,           \* history: the memory layers when the invocation was entered
    extracted,        \* history: the contents extracted in the calls of each session id
    log               \* history: the recorded inbound and outbound contents, by session id

ltmVars == <<semantic_memory, episodic_memory, call, result>>

\* The variables of the interceptor that WorkingMemory and LongTermMemory on
\* their own never touch.
mwVars == <<constructed, config, backend, session_memory, last_save_time, request, pc,
            before, extracted, log>>

vars == <<items, max_size, now, added, semantic_memory, episodic_memory, call, result,
          constructed, config, backend, session_memory, last_save_time, request, pc,
          before, extracted, log>>

\* The request objects of the host, and no request object.
ReqIds == {"r1", "r2"}
NoRequest == [absent |-> TRUE]
\* The session ids that the state bags of the model resolve to.
Sids == {"A", "T", "default"}
\* No tracker under a session id.
NoSession == [absent |-> TRUE]
\* No snapshot: no invocation has been entered on the request object.
NoSnapshot == [absent |-> TRUE]

\* The interceptor's variables where a WorkingMemory or a LongTermMemory is
\* used on its own, without a LayeredMemoryMiddleware around it.
NoInterceptor ==
    /\ constructed = FALSE
    /\ config = [enable_semantic_memory |-> TRUE, enable_episodic_memory |-> TRUE,
                 legacy_mode |-> FALSE]
    /\ backend = [semantic |-> [kind |-> "empty"], episodic |-> [kind |-> "empty"]]
    /\ session_memory = [sid \in Sids |-> NoSession]
    /\ last_save_time = 0
    /\ request = [r \in ReqIds |-> NoRequest]
    /\ pc = [r \in ReqIds |-> "idle"]
    /\ before = [r \in ReqIds |-> NoSnapshot]
    /\ extracted = [sid \in Sids |-> {}]
    /\ log = [sid \in Sids |-> <<>>]

\* ------------------------------------------------------------- sequences
Min(a, b) == IF a <= b THEN a ELSE b

\* seq[-n:] of Python for n >= 1: the last n elements (all of them when n > len).
LastN(seq, n) ==
    IF n >= Len(seq) THEN seq ELSE SubSeq(seq, Len(seq) - n + 1, Len(seq))

\* ---------------------------------------------------------- WorkingMemory
\* The contents offered to WorkingMemory.add in SpecWM.
WMContents == {<<"a">>, <<"b">>, <<"c">>, <<"d">>}
\* The importances offered to WorkingMemory.add in SpecWM (0.8 and 1.0).
WMImportances == {8, 10}

\* A bounded buffer that refuses the new element when full, keeping the oldest.
DequeAppendKeepOldest(d, n, x) ==
    IF Len(d) >= n THEN d ELSE Append(d, x)

\* deque(maxlen=n).append(x): a deque of maxlen 0 stays empty; a full deque
\* drops its oldest (leftmost) element before x is appended on the right.
DequeAppend(d, n, x) ==
    IF n = 0 THEN d
    ELSE IF Len(d) >= n THEN Append(Tail(d), x)
    ELSE Append(d, x)

\* WorkingMemory.add(content, importance) at clock reading t.
WorkingMemoryAdd(d, n, content, importance, t) ==
    DequeAppend(d, n, [content |-> content, timestamp |-> t, importance |-> importance])

\* The contents of the buffer, oldest first.
BufferContents(d) == [i \in 1..Len(d) |-> d[i].content]

InitWM ==
    /\ max_size \in 0..MaxSize
    /\ items = <<>>
    /\ now = 0
    /\ added = <<>>
    /\ semantic_memory = <<>>
    /\ episodic_memory = <<>>
    /\ call = [op |-> "none", n |-> 0]
    /\ result = <<>>
    /\ NoInterceptor

\* One call WorkingMemory.add(content, importance).
Add(content, importance) ==
    /\ Len(added) < MaxAdds
    /\ items' = WorkingMemoryAdd(items, max_size, content, importance, now)
    /\ added' = Append(added, content)
    /\ UNCHANGED <<max_size, now, ltmVars, mwVars>>

NextWM == \E c \in WMContents, imp \in WMImportances : Add(c, imp)

SpecWM == InitWM /\ [][NextWM]_vars

\* C1: after every add, the buffer holds at most N entries and they are
\* exactly the last min(N, number of adds) contents added, in insertion order.
C1_WorkingBufferBound ==
    /\ Len(items) <= max_size
    /\ Len(items) = Min(max_size, Len(added))
    /\ BufferContents(items) =
           SubSeq(added, Len(added) - Len(items) + 1, Len(added))

\* C1 witness: N = 3 and adds a, b, c, d leave [b, c, d].
C1_Witness ==
    /\ max_size = 3
    /\ added = << <<"a">>, <<"b">>, <<"c">>, <<"d">> >>
    /\ BufferContents(items) = << <<"b">>, <<"c">>, <<"d">> >>

\* ------------------------------------------------------------------ texts
\* str.lower() on one character of the model's alphabet.
LowerChar(c) ==
    CASE c = "A" -> "a"
      [] c = "B" -> "b"
      [] OTHER -> c

\* str.lower()
Lower(s) == [i \in 1..Len(s) |-> LowerChar(s[i])]

\* needle in hay: the substring test of Python (the empty string is in every string).
Contains(hay, needle) ==
    \E k \in 0..(Len(hay) - Len(needle)) :
        \A j \in 1..Len(needle) : hay[k + j] = needle[j]

\* query.lower() in item["content"].lower()
Matches(query, item) == Contains(Lower(item.content), Lower(query))

\* ---------------------------------------------------------------- sorting
\* The order of Python on the sort keys used here: numbers in a tuple of one or
\* two, compared left to right.
KeyLess(a, b) ==
    \/ a[1] < b[1]
    \/ a[1] = b[1] /\ Len(a) > 1 /\ a[2] < b[2]

\* list.sort(key=..., reverse=...) / sorted of Python, a stable sort; key[i] is
\* the key of seq[i]. An element ends behind every element whose key orders
\* before its own (after its own, when reverse) and behind the equal-keyed
\* elements that preceded it in the list.
StableSort(seq, key, reverse) ==
    LET n == Len(seq)
        ahead(i, j) == IF reverse THEN KeyLess(key[j], key[i]) ELSE KeyLess(key[i], key[j])
        pos(i) == 1 + Cardinality({j \in 1..n : ahead(j, i) \/ (j < i /\ ~ahead(i, j))})
    IN  [p \in 1..n |-> seq[CHOOSE i \in 1..n : pos(i) = p]]

\* seq[:n] of Python: the first n elements, or all but the last -n when n < 0.
FirstN(seq, n) ==
    LET k == IF n >= 0 THEN Min(n, Len(seq))
             ELSE IF Len(seq) + n > 0 THEN Len(seq) + n ELSE 0
    IN  SubSeq(seq, 1, k)

\* ---------------------------------------------------------- LongTermMemory
\* key=lambda x: (x["importance"], x["access_count"])
RankKey(mem) == [i \in 1..Len(mem) |-> <<mem[i].importance, mem[i].access_count>>]

\* key=lambda x: x["timestamp"]
TimestampKey(mem) == [i \in 1..Len(mem) |-> <<mem[i].timestamp>>]

\* key=lambda x: (x["importance"], x["last_accessed"])
ResultKey(mem) == [i \in 1..Len(mem) |-> <<mem[i].importance, mem[i].last_accessed>>]

\* An item built with the last_accessed a MemoryItem has by default, 0.0.
NewItemUnstamped(content, importance, tags, t) ==
    [content |-> content, timestamp |-> t, importance |-> importance,
     tags |-> tags, access_count |-> 0, last_accessed |-> 0]

\* The dict add_semantic_memory and add_episodic_memory build at clock reading t.
NewItem(content, importance, tags, t) ==
    [content |-> content, timestamp |-> t, importance |-> importance,
     tags |-> tags, access_count |-> 0, last_accessed |-> t]

\* PruneSemantic keeping the wrong end of the sorted list: the lowest-ranked items.
PruneSemanticLowest(mem) ==
    IF Len(mem) > SemanticLimit
    THEN FirstN(StableSort(mem, RankKey(mem), FALSE), SemanticKeep)
    ELSE mem

\* The tail of add_semantic_memory: sort by rank and keep the last SemanticKeep.
PruneSemantic(mem) ==
    IF Len(mem) > SemanticLimit
    THEN LastN(StableSort(mem, RankKey(mem), FALSE), SemanticKeep)
    ELSE mem

\* add_semantic_memory that puts the new item at the head of the list.
AddSemanticMemoryPrepend(mem, content, importance, tags, t) ==
    PruneSemantic(<<NewItem(content, importance, tags, t)>> \o mem)

\* LongTermMemory.add_semantic_memory(content, importance, tags)
AddSemanticMemory(mem, content, importance, tags, t) ==
    PruneSemantic(Append(mem, NewItem(content, importance, tags, t)))

\* PruneEpisodic without the sort: the last items of the list as it stands.
PruneEpisodicUnsorted(mem) ==
    IF Len(mem) > EpisodicLimit
    THEN LastN(mem, EpisodicKeep)
    ELSE mem

\* The tail of add_episodic_memory: sort by timestamp and keep the last EpisodicKeep.
PruneEpisodic(mem) ==
    IF Len(mem) > EpisodicLimit
    THEN LastN(StableSort(mem, TimestampKey(mem), FALSE), EpisodicKeep)
    ELSE mem

\* LongTermMemory.add_episodic_memory(content, importance, tags)
AddEpisodicMemory(mem, content, importance, tags, t) ==
    PruneEpisodic(Append(mem, NewItem(content, importance, tags, t)))

\* Whether search_memory walks the sequence called which ("semantic", "episodic").
InScope(memory_type, which) == memory_type \in {which, "all"}

\* Touch that counts the access but leaves last_accessed as it was.
TouchNoStamp(mem, query, t) ==
    [i \in 1..Len(mem) |->
        IF Matches(query, mem[i])
        THEN [mem[i] EXCEPT !.access_count = @ + 1]
        ELSE mem[i]]

\* One loop of search_memory over a sequence: a matching item is counted and stamped.
Touch(mem, query, t) ==
    [i \in 1..Len(mem) |->
        IF Matches(query, mem[i])
        THEN [mem[i] EXCEPT !.access_count = @ + 1, !.last_accessed = t]
        ELSE mem[i]]

\* {**item, "type": kind} for the matching items of a walked sequence, in order.
Hits(mem, query, kind) ==
    LET matching == SelectSeq(mem, LAMBDA it : Matches(query, it))
    IN  [i \in 1..Len(matching) |->
            [content |-> matching[i].content, timestamp |-> matching[i].timestamp,
             importance |-> matching[i].importance, tags |-> matching[i].tags,
             access_count |-> matching[i].access_count,
             last_accessed |-> matching[i].last_accessed, type |-> kind]]

\* What search_memory leaves in a sequence.
SearchedStore(mem, query, memory_type, which, t) ==
    IF InScope(memory_type, which) THEN Touch(mem, query, t) ELSE mem

\* search_memory without its sort: the matches in the order they were walked.
SearchResultsUnsorted(sem, epi, query, memory_type, limit) ==
    LET s == IF InScope(memory_type, "semantic") THEN Hits(sem, query, "semantic") ELSE <<>>
        e == IF InScope(memory_type, "episodic") THEN Hits(epi, query, "episodic") ELSE <<>>
    IN  FirstN(s \o e, limit)

\* What search_memory returns, given the two sequences as it left them.
SearchResults(sem, epi, query, memory_type, limit) ==
    LET s == IF InScope(memory_type, "semantic") THEN Hits(sem, query, "semantic") ELSE <<>>
        e == IF InScope(memory_type, "episodic") THEN Hits(epi, query, "episodic") ELSE <<>>
    IN  FirstN(StableSort(s \o e, ResultKey(s \o e), TRUE), limit)

\* ------------------------------------------------ LongTermMemory as a machine
LTMContents == {<<"a", "B">>, <<"b">>}
LTMImportances == {5, 10}
\* One query, matching <<"a", "B">> through both letter cases and not <<"b">>.
LTMQueries == {<<"A", "b">>}
MemoryTypes == {"semantic", "episodic", "all"}
Limits == {1, 5}

\* An item of a sequence that load() read from the backend: written by an earlier
\* run, so stamped before this run's clock started, and possibly searched before.
LoadedItem(i) ==
    [content |-> IF i % 2 = 1 THEN <<"a", "B">> ELSE <<"b">>,
     timestamp |-> 0 - (i % 3),
     importance |-> IF i % 3 = 0 THEN 10 ELSE 5,
     tags |-> <<>>,
     access_count |-> i % 2,
     last_accessed |-> 0 - (i % 3)]

Loaded(n) == [i \in 1..n |-> LoadedItem(i)]

\* The lengths of the sequences load() found: nothing, a sequence just at the
\* limit, and one that an earlier run left longer than the limit.
LoadedLength(k, limit) ==
    CASE k = "empty" -> 0
      [] k = "full" -> limit
      [] OTHER -> limit + 2

\* The clock readings a call may see: the clock never runs backwards.
Readings == {t \in now..(now + 1) : t <= MaxTime}

InitLTM ==
    /\ max_size = 0
    /\ items = <<>>
    /\ added = <<>>
    /\ now = 0
    /\ \E k \in {"empty", "full", "overlong"} :
           /\ semantic_memory = Loaded(LoadedLength(k, SemanticLimit))
           /\ episodic_memory = Loaded(LoadedLength(k, EpisodicLimit))
    /\ call = [op |-> "none", n |-> 0]
    /\ result = <<>>
    /\ NoInterceptor

AddSemantic(content, importance, t) ==
    /\ call.n < MaxOps
    /\ semantic_memory' = AddSemanticMemory(semantic_memory, content, importance, <<>>, t)
    /\ now' = t
    /\ call' = [op |-> "add_semantic", n |-> call.n + 1,
                item |-> NewItem(content, importance, <<>>, t),
                before |-> Len(semantic_memory)]
    /\ result' = <<>>
    /\ UNCHANGED <<episodic_memory, items, max_size, added, mwVars>>

AddEpisodic(content, importance, t) ==
    /\ call.n < MaxOps
    /\ episodic_memory' = AddEpisodicMemory(episodic_memory, content, importance, <<>>, t)
    /\ now' = t
    /\ call' = [op |-> "add_episodic", n |-> call.n + 1,
                item |-> NewItem(content, importance, <<>>, t),
                before |-> Len(episodic_memory)]
    /\ result' = <<>>
    /\ UNCHANGED <<semantic_memory, items, max_size, added, mwVars>>

Search(query, memory_type, limit, t) ==
    /\ call.n < MaxOps
    /\ semantic_memory' = SearchedStore(semantic_memory, query, memory_type, "semantic", t)
    /\ episodic_memory' = SearchedStore(episodic_memory, query, memory_type, "episodic", t)
    /\ result' = SearchResults(semantic_memory', episodic_memory', query, memory_type, limit)
    /\ now' = t
    /\ call' = [op |-> "search", n |-> call.n + 1, query |-> query,
                memory_type |-> memory_type, limit |-> limit, t |-> t]
    /\ UNCHANGED <<items, max_size, added, mwVars>>

NextLTM ==
    \/ \E c \in LTMContents, imp \in LTMImportances, t \in Readings : AddSemantic(c, imp, t)
    \/ \E c \in LTMContents, imp \in LTMImportances, t \in Readings : AddEpisodic(c, imp, t)
    \/ \E q \in LTMQueries, mt \in MemoryTypes, l \in Limits, t \in Readings :
           Search(q, mt, l, t)

SpecLTM == InitLTM /\ [][NextLTM]_vars

\* ------------------------------------------------- claims on LongTermMemory
Range(seq) == {seq[i] : i \in 1..Len(seq)}

\* How many times x occurs in seq.
Count(seq, x) == Cardinality({i \in 1..Len(seq) : seq[i] = x})

\* kept holds only items of all, none more often than all does.
SubBag(kept, all) == \A x \in Range(kept) : Count(kept, x) <= Count(all, x)

\* a ranks below b by (importance, access_count).
RankBelow(a, b) ==
    \/ a.importance < b.importance
    \/ a.importance = b.importance /\ a.access_count < b.access_count

\* x is among the items of all that kept no longer holds.
Dropped(all, kept, x) == Count(all, x) > Count(kept, x)

C2_Step ==
    (call'.op = "add_semantic" /\ call'.n = call.n + 1) =>
        LET all == Append(semantic_memory, call'.item)
        IN  /\ Len(semantic_memory') <= SemanticLimit
            /\ IF Len(all) > SemanticLimit
               THEN /\ Len(semantic_memory') = SemanticKeep
                    /\ SubBag(semantic_memory', all)
                    /\ \A x \in Range(all), y \in Range(semantic_memory') :
                           Dropped(all, semantic_memory', x) => ~RankBelow(y, x)
               ELSE semantic_memory' = all

\* C2: after any add_semantic_memory call, whatever the length before it,
\* len(semantic_memory) is at most the limit; when the insert makes the length
\* exceed the limit exactly the keep-count of items are retained, all taken from
\* the sequence, and no retained item ranks below a discarded item by
\* (importance, access_count).
C2_SemanticPruning == [][C2_Step]_vars

\* C2 witness: an insert into a loaded sequence already longer than the limit
\* pruned it, and items of two different ranks were among those it had to judge.
C2_Witness ==
    /\ call.op = "add_semantic"
    /\ call.before > SemanticLimit
    /\ Len(semantic_memory) = SemanticKeep
    /\ call.item.importance = 5

C3_Step ==
    (call'.op = "add_episodic" /\ call'.n = call.n + 1) =>
        LET all == Append(episodic_memory, call'.item)
        IN  /\ Len(episodic_memory') <= EpisodicLimit
            /\ IF Len(all) > EpisodicLimit
               THEN /\ Len(episodic_memory') = EpisodicKeep
                    /\ SubBag(episodic_memory', all)
                    /\ \A x \in Range(all), y \in Range(episodic_memory') :
                           Dropped(all, episodic_memory', x) => y.timestamp >= x.timestamp
               ELSE episodic_memory' = all

\* C3: after any add_episodic_memory call len(episodic_memory) is at most the
\* limit; when the insert makes the length exceed the limit exactly the
\* keep-count of items are retained, they are those with the greatest
\* timestamps, and no retained item is older than a discarded one, whatever
\* the importances.
C3_EpisodicPruning == [][C3_Step]_vars

\* C3 witness: an insert that made the length limit + 1 pruned the sequence, and
\* the item it kept last is of the lower importance.
C3_Witness ==
    /\ call.op = "add_episodic"
    /\ call.before = EpisodicLimit
    /\ Len(episodic_memory) = EpisodicKeep
    /\ call.item.importance = 5
    /\ episodic_memory[EpisodicKeep] = call.item

\* The sequences a search of the given scope walks.
ScopeOf(memory_type) ==
    CASE memory_type = "semantic" -> {"semantic"}
      [] memory_type = "episodic" -> {"episodic"}
      [] memory_type = "all" -> {"semantic", "episodic"}
      [] OTHER -> {}

\* query occurs in content, letter case ignored.
ContainsIgnoringCase(content, query) ==
    \E k \in 0..(Len(content) - Len(query)) :
        \A j \in 1..Len(query) : LowerChar(content[k + j]) = LowerChar(query[j])

\* The effect of one search on one sequence, before and after.
SearchEffect(old, new, kind, c) ==
    /\ Len(new) = Len(old)
    /\ \A i \in 1..Len(old) :
           IF kind \in ScopeOf(c.memory_type) /\ ContainsIgnoringCase(old[i].content, c.query)
           THEN new[i] = [old[i] EXCEPT !.access_count = old[i].access_count + 1,
                                        !.last_accessed = c.t]
           ELSE new[i] = old[i]

\* A returned entry is a matching item of old, with its count already raised.
ReturnedFrom(r, old, c) ==
    \E i \in 1..Len(old) :
        /\ ContainsIgnoringCase(old[i].content, c.query)
        /\ r.content = old[i].content
        /\ r.timestamp = old[i].timestamp
        /\ r.importance = old[i].importance
        /\ r.access_count = old[i].access_count + 1
        /\ r.last_accessed = c.t

C4_Step ==
    (call'.op = "search" /\ call'.n = call.n + 1) =>
        /\ SearchEffect(semantic_memory, semantic_memory', "semantic", call')
        /\ SearchEffect(episodic_memory, episodic_memory', "episodic", call')
        /\ \A k \in 1..Len(result') :
               /\ result'[k].type \in ScopeOf(call'.memory_type)
               /\ result'[k].type = "semantic" =>
                      ReturnedFrom(result'[k], semantic_memory, call')
               /\ result'[k].type = "episodic" =>
                      ReturnedFrom(result'[k], episodic_memory, call')

\* C4: search_memory raises access_count by exactly 1 and sets last_accessed to
\* the call time on every item of the searched scope whose content contains the
\* query case-insensitively, also on the items that limit cuts from the result;
\* the other items are unchanged; the returned entries carry the raised count.
C4_SearchSideEffect == [][C4_Step]_vars

\* The items of seq that the latest search matched.
Stamped(seq) == {i \in 1..Len(seq) : seq[i].last_accessed = call.t /\ seq[i].access_count >= 1}

\* C4 witness: a search with limit 1 matched a freshly added semantic item and a
\* second item; it returned one entry, with access_count 1, and the match that
\* limit cut from the result was counted all the same.
C4_Witness ==
    /\ call.op = "search"
    /\ call.limit = 1
    /\ call.query = <<"A", "b">>
    /\ call.t > 0
    /\ Len(result) = 1
    /\ result[1].access_count = 1
    /\ Cardinality(Stamped(semantic_memory)) + Cardinality(Stamped(episodic_memory)) >= 2

\* ------------------------------------------------ texts of the interceptor
\* A text is a sequence of tokens; in the interceptor's texts a token is a word
\* or a separator, and the words below are the vocabulary of the model.

\* The words w with len(w) > 4 and w.isalpha(), by their lower-cased form.
TopicOf(w) ==
    CASE w = "hello" -> "hello"
      [] w = "Hello" -> "hello"
      [] w = "world" -> "world"
      [] OTHER -> ""

\* Whitespace, as str.strip() sees it.
Whitespace == {" ", "\n"}

\* str.strip()
Strip(s) ==
    LET solid == {i \in 1..Len(s) : s[i] \notin Whitespace}
    IN  IF solid = {} THEN <<>>
        ELSE SubSeq(s, CHOOSE i \in solid : \A j \in solid : i <= j,
                       CHOOSE i \in solid : \A j \in solid : i >= j)

\* sep.join(parts)
RECURSIVE Join(_, _)
Join(parts, sep) ==
    IF parts = <<>> THEN <<>>
    ELSE IF Len(parts) = 1 THEN parts[1]
    ELSE parts[1] \o <<sep>> \o Join(Tail(parts), sep)

\* The role label of a message object, by its type attribute: the source's
\* labels for user, assistant and unknown, written "user:", "assistant:" and
\* "unknown:" here.
RoleOf(msg) ==
    CASE msg.type = "human" -> "user:"
      [] msg.type = "ai" -> "assistant:"
      [] OTHER -> "unknown:"

\* _extract_context_from_request (direct = "user:") and
\* _extract_context_from_response (direct = "assistant:"): the content attribute when
\* it is there and non-empty, else every message that has content, each behind
\* its role label, joined by " | ".
ExtractContext(obj, direct) ==
    IF obj.content # <<>> THEN <<direct>> \o obj.content
    ELSE LET withContent == SelectSeq(obj.messages, LAMBDA m : m.content # <<>>)
         IN  Join([i \in 1..Len(withContent) |->
                      <<RoleOf(withContent[i])>> \o withContent[i].content], " | ")

\* ------------------------------------------------------------ SessionMemory
\* SessionMemory.__init__ at clock reading t.
NewSession(t) ==
    [start_time |-> t, conversation_summary |-> <<>>, key_topics |-> <<>>,
     interaction_count |-> 0]

\* SessionMemory.update_summary that replaces the summary by the new content.
UpdateSummaryOverwrite(session, new_content) ==
    [session EXCEPT !.conversation_summary = Strip(new_content),
                    !.interaction_count = @ + 1]

\* SessionMemory.update_summary
UpdateSummary(session, new_content) ==
    [session EXCEPT
        !.conversation_summary = Strip(session.conversation_summary \o <<"\n">> \o new_content),
        !.interaction_count = @ + 1]

\* SessionMemory.add_topic
AddTopic(session, topic) ==
    IF \E i \in 1..Len(session.key_topics) : session.key_topics[i] = topic
    THEN session
    ELSE [session EXCEPT !.key_topics = Append(@, topic)]

\* The loop of _update_session_memory over content.split().
RECURSIVE AddTopics(_, _)
AddTopics(session, words) ==
    IF words = <<>> THEN session
    ELSE AddTopics(IF TopicOf(Head(words)) # ""
                   THEN AddTopic(session, TopicOf(Head(words)))
                   ELSE session,
                   Tail(words))

\* SessionMemory.get_context: the heading and the lines under it. The heading,
\* the start time and the interaction count are always rendered.
SessionGetContext(session) ==
    <<[name |-> "session",
       start_time |-> session.start_time,
       interaction_count |-> session.interaction_count,
       key_topics |-> session.key_topics,
       summary |-> session.conversation_summary]>>

\* LayeredMemoryMiddleware._update_session_memory, on the mapping of trackers.
UpdateSessionMemory(sessions, session_id, content, t) ==
    LET session == IF sessions[session_id] = NoSession THEN NewSession(t)
                   ELSE sessions[session_id]
    IN  [sessions EXCEPT ![session_id] = AddTopics(UpdateSummary(session, content), content)]

\* ------------------------------------------------------- context rendering
\* seq[-n:] of Python for any n: everything when n = 0, all but the first -n
\* when n < 0.
SliceLast(seq, n) ==
    IF n > 0 THEN LastN(seq, n)
    ELSE IF n = 0 THEN seq
    ELSE SubSeq(seq, Min(0 - n, Len(seq)) + 1, Len(seq))

\* max_items of WorkingMemory.get_context as _build_memory_context calls it.
WorkingMaxItems == 5
\* max_items of LongTermMemory.get_context as _build_memory_context calls it.
LongTermMaxItems == 10

\* WorkingMemory.get_context(max_items): nothing for an empty buffer, else the
\* heading and the numbered recent contents.
WorkingGetContext(d, max_items) ==
    LET recent_items == SliceLast(d, max_items)
    IN  IF recent_items = <<>> THEN <<>>
        ELSE <<[name |-> "working", lines |-> BufferContents(recent_items)]>>

\* A value of a loaded sequence that is no memory item (valid JSON all the same).
BadItem == [bad |-> TRUE]
WellFormed(mem) == \A i \in 1..Len(mem) : mem[i] # BadItem

\* Whether LongTermMemory.get_context raises: the sort keys subscript every
\* element of both sequences once either is non-empty.
GetContextRaises(sem, epi) ==
    /\ sem # <<>> \/ epi # <<>>
    /\ ~WellFormed(sem) \/ ~WellFormed(epi)

\* LongTermMemory.get_context(max_items), for well-formed sequences.
LongTermGetContext(sem, epi, max_items) ==
    IF sem = <<>> /\ epi = <<>> THEN <<>>
    ELSE <<[name |-> "longterm",
            semantic |-> BufferContents(
                FirstN(StableSort(sem, RankKey(sem), TRUE), max_items \div 2)),
            episodic |-> BufferContents(
                FirstN(StableSort(epi, TimestampKey(epi), TRUE), max_items \div 2))]>>

\* -------------------------------------------------- LayeredMemoryMiddleware
\* Most hook invocations (before_agent, wrap_model_call) in one behaviour.
MaxCalls == 2
\* working_memory_size and auto_save_interval as the model's middleware is
\* constructed (the defaults of __init__ are 10 entries and 300 seconds).
WorkingMemorySize == 3
AutoSaveInterval == 0
\* Latest clock reading of a behaviour of the interceptor.
MaxClock == 1

\* _get_session_id that looks at thread_id before session_id.
GetSessionIdThreadFirst(state) ==
    IF state.thread_id # "" THEN state.thread_id
    ELSE IF state.session_id # "" THEN state.session_id
    ELSE "default"

\* _get_session_id: session_id, else thread_id, else "default"; an absent key
\* and an empty value are both "" here.
GetSessionId(state) ==
    IF state.session_id # "" THEN state.session_id
    ELSE IF state.thread_id # "" THEN state.thread_id
    ELSE "default"

\* The words that _update_long_term_memory looks for, in place of the source's
\* three importance keywords and four reported-dialogue keywords.
ImportanceKeywords == {"important", "key", "remember"}
DialogueKeywords == {"i-said", "user-said", "dialogue", "discussion"}

HasKeyword(content, keywords) == \E i \in 1..Len(content) : content[i] \in keywords

\* _update_long_term_memory that raises the importance of every content.
UpdateLongTermMemoryAlwaysBoost(sem, epi, cfg, content, importance, t) ==
    LET imp == Min(10, importance + 3)
    IN  IF ~cfg.enable_semantic_memory /\ ~cfg.enable_episodic_memory
        THEN [semantic |-> sem, episodic |-> epi]
        ELSE IF HasKeyword(content, DialogueKeywords)
        THEN [semantic |-> sem,
              episodic |-> IF cfg.enable_episodic_memory
                           THEN AddEpisodicMemory(epi, content, imp, <<>>, t) ELSE epi]
        ELSE [semantic |-> IF cfg.enable_semantic_memory
                           THEN AddSemanticMemory(sem, content, imp, <<>>, t) ELSE sem,
              episodic |-> epi]

\* _update_long_term_memory that files reported dialogue under both categories.
UpdateLongTermMemoryBoth(sem, epi, cfg, content, importance, t) ==
    LET imp == IF HasKeyword(content, ImportanceKeywords)
               THEN Min(10, importance + 3) ELSE importance
    IN  IF ~cfg.enable_semantic_memory /\ ~cfg.enable_episodic_memory
        THEN [semantic |-> sem, episodic |-> epi]
        ELSE [semantic |-> IF cfg.enable_semantic_memory
                           THEN AddSemanticMemory(sem, content, imp, <<>>, t) ELSE sem,
              episodic |-> IF cfg.enable_episodic_memory /\ HasKeyword(content, DialogueKeywords)
                           THEN AddEpisodicMemory(epi, content, imp, <<>>, t) ELSE epi]

\* _update_long_term_memory(content, importance) on the pair of sequences.
UpdateLongTermMemory(sem, epi, cfg, content, importance, t) ==
    LET imp == IF HasKeyword(content, ImportanceKeywords)
               THEN Min(10, importance + 3) ELSE importance
    IN  IF ~cfg.enable_semantic_memory /\ ~cfg.enable_episodic_memory
        THEN [semantic |-> sem, episodic |-> epi]
        ELSE IF HasKeyword(content, DialogueKeywords)
        THEN [semantic |-> sem,
              episodic |-> IF cfg.enable_episodic_memory
                           THEN AddEpisodicMemory(epi, content, imp, <<>>, t) ELSE epi]
        ELSE [semantic |-> IF cfg.enable_semantic_memory
                           THEN AddSemanticMemory(sem, content, imp, <<>>, t) ELSE sem,
              episodic |-> epi]

\* Whether _build_memory_context raises.
BuildRaises(sem, epi, cfg) ==
    /\ cfg.enable_semantic_memory \/ cfg.enable_episodic_memory
    /\ GetContextRaises(sem, epi)

\* _build_memory_context that puts the session context in front.
BuildMemoryContextSessionFirst(d, sessions, sem, epi, cfg, state) ==
    LET session_id == GetSessionId(state)
    IN  (IF sessions[session_id] # NoSession
         THEN SessionGetContext(sessions[session_id]) ELSE <<>>)
        \o WorkingGetContext(d, WorkingMaxItems)
        \o (IF cfg.enable_semantic_memory \/ cfg.enable_episodic_memory
            THEN LongTermGetContext(sem, epi, LongTermMaxItems) ELSE <<>>)
        \o (IF cfg.legacy_mode /\ state.agent_memory # <<>>
            THEN <<[name |-> "legacy", text |-> state.agent_memory]>> ELSE <<>>)

\* _build_memory_context: the non-empty sub-contexts in their fixed order.
BuildMemoryContext(d, sessions, sem, epi, cfg, state) ==
    LET session_id == GetSessionId(state)
    IN  WorkingGetContext(d, WorkingMaxItems)
        \o (IF sessions[session_id] # NoSession
            THEN SessionGetContext(sessions[session_id]) ELSE <<>>)
        \o (IF cfg.enable_semantic_memory \/ cfg.enable_episodic_memory
            THEN LongTermGetContext(sem, epi, LongTermMaxItems) ELSE <<>>)
        \o (IF cfg.legacy_mode /\ state.agent_memory # <<>>
            THEN <<[name |-> "legacy", text |-> state.agent_memory]>> ELSE <<>>)

\* The injection of wrap_model_call: the context in front of the system prompt
\* and the storage-path trailer behind it, when the context is non-empty. A
\* system prompt is a sequence of blocks.
InjectAfterPrompt(system_prompt, memory_context) ==
    IF memory_context = <<>> THEN system_prompt
    ELSE system_prompt
         \o <<[kind |-> "context", parts |-> memory_context]>>
         \o <<[kind |-> "trailer"]>>
Inject(system_prompt, memory_context) ==
    IF memory_context = <<>> THEN system_prompt
    ELSE <<[kind |-> "context", parts |-> memory_context]>>
         \o system_prompt
         \o <<[kind |-> "trailer"]>>

\* The numbers a memory file holds: clock readings, counts, and importances in
\* tenths.
JsonNumbers == (0 - 10)..10

\* json.dumps and json.loads of a number: its decimal text, and the number
\* that text denotes. DumpNumberLastDigit writes the last digit alone.
DumpNumberLastDigit(n) == ToString(n % 10)
DumpNumber(n) == ToString(n)
ParseNumber(text) == CHOOSE n \in JsonNumbers : ToString(n) = text

\* json.dumps and json.loads inside a string: a newline, a quote and a backslash
\* are written behind a backslash.
EscapeToken(t) ==
    CASE t = "\n" -> "\\n"
      [] t = "\"" -> "\\\""
      [] t = "\\" -> "\\\\"
      [] OTHER -> t
UnescapeToken(t) ==
    CASE t = "\\n" -> "\n"
      [] t = "\\\"" -> "\""
      [] t = "\\\\" -> "\\"
      [] OTHER -> t
DumpString(text) == [i \in 1..Len(text) |-> EscapeToken(text[i])]
ParseString(text) == [i \in 1..Len(text) |-> UnescapeToken(text[i])]

\* json.dumps of one element of a sequence: the six keys of a memory item, or
\* the text of a value that is no memory item.
DumpItem(item) ==
    IF item = BadItem THEN [bad |-> "true"]
    ELSE [content |-> DumpString(item.content),
          timestamp |-> DumpNumber(item.timestamp),
          importance |-> DumpNumber(item.importance),
          tags |-> [i \in 1..Len(item.tags) |-> DumpString(item.tags[i])],
          access_count |-> DumpNumber(item.access_count),
          last_accessed |-> DumpNumber(item.last_accessed)]

\* json.loads of one element.
ParseItem(text) ==
    IF text = [bad |-> "true"] THEN BadItem
    ELSE [content |-> ParseString(text.content),
          timestamp |-> ParseNumber(text.timestamp),
          importance |-> ParseNumber(text.importance),
          tags |-> [i \in 1..Len(text.tags) |-> ParseString(text.tags[i])],
          access_count |-> ParseNumber(text.access_count),
          last_accessed |-> ParseNumber(text.last_accessed)]

\* json.dumps(mem, ensure_ascii=False, indent=2) and json.loads of its text.
Dumps(mem) == [i \in 1..Len(mem) |-> DumpItem(mem[i])]
Loads(text) == [i \in 1..Len(text) |-> ParseItem(text[i])]

\* LongTermMemory.load on one file: the parsed text when the read gives text
\* that parses; nothing when the read raises, gives no text or gives text that
\* does not parse.
LoadFile(file) == IF file.kind \in {"items", "malformed"} THEN Loads(file.data) ELSE <<>>

\* LongTermMemory.load with one try around both reads: a failure on the
\* semantic file leaves the episodic file unread.
LoadOneTry(files) ==
    IF files.semantic.kind \in {"raises", "unparsable"}
    THEN [semantic |-> <<>>, episodic |-> <<>>]
    ELSE [semantic |-> LoadFile(files.semantic), episodic |-> LoadFile(files.episodic)]

\* LongTermMemory.load on a new LongTermMemory: each file in a try of its own.
Load(files) ==
    [semantic |-> LoadFile(files.semantic), episodic |-> LoadFile(files.episodic)]

\* The file a successful backend.write of a sequence leaves.
Written(mem) == [kind |-> "items", data |-> Dumps(mem)]

\* LongTermMemory.save that gives up at the first write that raises.
SaveStopAtFailure(files, sem, epi) ==
    [files EXCEPT
        !.semantic = IF files.writable.semantic THEN Written(sem) ELSE @,
        !.episodic = IF files.writable.semantic /\ files.writable.episodic
                     THEN Written(epi) ELSE @]

\* LongTermMemory.save: the backend after the two writes, each in a try of its
\* own, each made once.
Save(files, sem, epi) ==
    [files EXCEPT
        !.semantic = IF files.writable.semantic THEN Written(sem) ELSE @,
        !.episodic = IF files.writable.episodic THEN Written(epi) ELSE @]

\* The memory layers, as one value.
Layers == [items |-> items, session_memory |-> session_memory,
           semantic_memory |-> semantic_memory, episodic_memory |-> episodic_memory]

\* LayeredMemoryMiddleware.__init__
Construct ==
    /\ ~constructed
    /\ constructed' = TRUE
    /\ IF config.enable_semantic_memory \/ config.enable_episodic_memory
       THEN /\ semantic_memory' = Load(backend).semantic
            /\ episodic_memory' = Load(backend).episodic
       ELSE UNCHANGED <<semantic_memory, episodic_memory>>
    /\ last_save_time' = now
    /\ call' = [op |-> "init", n |-> call.n]
    /\ result' = <<>>
    /\ UNCHANGED <<items, max_size, now, added, config, backend, session_memory, request,
                   pc, before, extracted, log>>

\* The clock moves on.
Tick ==
    /\ now < MaxClock
    /\ now' = now + 1
    /\ UNCHANGED <<items, max_size, added, ltmVars, mwVars>>

\* before_agent(state, runtime)
BeforeAgent(state) ==
    /\ constructed
    /\ call.n < MaxCalls
    /\ \A r \in ReqIds : pc[r] = "idle"
    /\ session_memory' =
           IF session_memory[GetSessionId(state)] = NoSession
           THEN [session_memory EXCEPT ![GetSessionId(state)] = NewSession(now)]
           ELSE session_memory
    /\ call' = [op |-> "before_agent", n |-> call.n + 1]
    /\ result' = <<>>
    /\ UNCHANGED <<items, max_size, now, added, semantic_memory, episodic_memory,
                   constructed, config, backend, last_save_time, request, pc, before,
                   extracted, log>>

\* wrap_model_call up to the handler with an inbound update that files the
\* content in the long-term store as well.
EnterModelCallFiling(r, rq) ==
    LET request_context == ExtractContext(rq, "user:")
        session_id == GetSessionId(rq.state)
        d == IF request_context # <<>>
             THEN WorkingMemoryAdd(items, max_size, request_context, 10, now)
             ELSE items
        sessions == IF request_context # <<>>
                    THEN UpdateSessionMemory(session_memory, session_id, request_context, now)
                    ELSE session_memory
        filed == IF request_context # <<>>
                 THEN UpdateLongTermMemory(semantic_memory, episodic_memory, config,
                                           request_context, 7, now)
                 ELSE [semantic |-> semantic_memory, episodic |-> episodic_memory]
        raises == BuildRaises(filed.semantic, filed.episodic, config)
        memory_context == BuildMemoryContext(d, sessions, filed.semantic,
                                             filed.episodic, config, rq.state)
    IN  /\ items' = d
        /\ session_memory' = sessions
        /\ before' = [before EXCEPT ![r] = Layers]
        /\ IF request_context # <<>>
           THEN /\ extracted' = [extracted EXCEPT ![session_id] = @ \cup {request_context}]
                /\ log' = [log EXCEPT ![session_id] =
                              Append(@, [dir |-> "in", content |-> request_context])]
           ELSE UNCHANGED <<extracted, log>>
        /\ call' = [op |-> "wrap_model_call", n |-> call.n + 1, r |-> r,
                     system_prompt |-> rq.system_prompt]
        /\ IF raises
           THEN /\ request' = [request EXCEPT ![r] = rq]
                /\ result' = [outcome |-> "memory_raised"]
                /\ UNCHANGED pc
           ELSE /\ request' = [request EXCEPT ![r] =
                        [rq EXCEPT !.system_prompt = Inject(rq.system_prompt, memory_context)]]
                /\ result' = [outcome |-> "pending"]
                /\ pc' = [pc EXCEPT ![r] = "handler"]
        /\ semantic_memory' = filed.semantic
        /\ episodic_memory' = filed.episodic
        /\ UNCHANGED <<max_size, now, added, constructed, config, backend, last_save_time>>

\* wrap_model_call(request, handler) from its entry to the call of the handler,
\* on the request object r as the host passes it (rq): the inbound update, the
\* context build, which may raise, and the injection.
EnterModelCall(r, rq) ==
    LET request_context == ExtractContext(rq, "user:")
        session_id == GetSessionId(rq.state)
        d == IF request_context # <<>>
             THEN WorkingMemoryAdd(items, max_size, request_context, 10, now)
             ELSE items
        sessions == IF request_context # <<>>
                    THEN UpdateSessionMemory(session_memory, session_id, request_context, now)
                    ELSE session_memory
        raises == BuildRaises(semantic_memory, episodic_memory, config)
        memory_context == BuildMemoryContext(d, sessions, semantic_memory,
                                             episodic_memory, config, rq.state)
    IN  /\ items' = d
        /\ session_memory' = sessions
        /\ before' = [before EXCEPT ![r] = Layers]
        /\ IF request_context # <<>>
           THEN /\ extracted' = [extracted EXCEPT ![session_id] = @ \cup {request_context}]
                /\ log' = [log EXCEPT ![session_id] =
                              Append(@, [dir |-> "in", content |-> request_context])]
           ELSE UNCHANGED <<extracted, log>>
        /\ call' = [op |-> "wrap_model_call", n |-> call.n + 1, r |-> r,
                     system_prompt |-> rq.system_prompt]
        /\ IF raises
           THEN /\ request' = [request EXCEPT ![r] = rq]
                /\ result' = [outcome |-> "memory_raised"]
                /\ UNCHANGED pc
           ELSE /\ request' = [request EXCEPT ![r] =
                        [rq EXCEPT !.system_prompt = Inject(rq.system_prompt, memory_context)]]
                /\ result' = [outcome |-> "pending"]
                /\ pc' = [pc EXCEPT ![r] = "handler"]
        /\ UNCHANGED <<max_size, now, added, semantic_memory, episodic_memory, constructed,
                       config, backend, last_save_time>>

\* The host calls wrap_model_call with a request object it has just made.
Call(r, rq) ==
    /\ constructed
    /\ call.n < MaxCalls
    /\ \A q \in ReqIds : pc[q] = "idle"
    /\ EnterModelCall(r, rq)

\* The host passes the request object of an earlier call through the interceptor
\* again: a retry after a failure, or a repeated model call.
CallAgain(r) ==
    /\ constructed
    /\ call.n < MaxCalls
    /\ \A q \in ReqIds : pc[q] = "idle"
    /\ request[r] # NoRequest
    /\ EnterModelCall(r, request[r])

\* The handler raises: wrap_model_call has no handler for it, the exception
\* leaves the call.
HandlerRaises(r) ==
    /\ pc[r] = "handler"
    /\ pc' = [pc EXCEPT ![r] = "idle"]
    /\ call' = [op |-> "handler_raised", n |-> call.n, r |-> r]
    /\ result' = [outcome |-> "handler_raised"]
    /\ UNCHANGED <<items, max_size, now, added, semantic_memory, episodic_memory,
                   constructed, config, backend, session_memory, last_save_time, request,
                   before, extracted, log>>

\* The return of the handler in an invocation that writes the tracker back from
\* the copy it took on entry, as it was after its own inbound update.
HandlerReturnsStale(r, response) ==
    LET response_context == ExtractContext(response, "assistant:")
        session_id == GetSessionId(request[r].state)
        recorded == response_context # <<>>
        request_context == ExtractContext(request[r], "user:")
        seen == IF request_context # <<>>
                THEN UpdateSessionMemory(before[r].session_memory, session_id,
                                         request_context, now)
                ELSE before[r].session_memory
        long_term == IF recorded
                     THEN UpdateLongTermMemory(semantic_memory, episodic_memory, config,
                                               response_context, 7, now)
                     ELSE [semantic |-> semantic_memory, episodic |-> episodic_memory]
        saving == now - last_save_time > AutoSaveInterval
    IN  /\ pc[r] = "handler"
        /\ pc' = [pc EXCEPT ![r] = "idle"]
        /\ items' = IF recorded
                    THEN WorkingMemoryAdd(items, max_size, response_context, 8, now)
                    ELSE items
        /\ session_memory' =
               IF recorded
               THEN UpdateSessionMemory(seen, session_id, response_context, now)
               ELSE session_memory
        /\ semantic_memory' = long_term.semantic
        /\ episodic_memory' = long_term.episodic
        /\ IF recorded
           THEN /\ extracted' = [extracted EXCEPT ![session_id] = @ \cup {response_context}]
                /\ log' = [log EXCEPT ![session_id] =
                              Append(@, [dir |-> "out", content |-> response_context])]
           ELSE UNCHANGED <<extracted, log>>
        /\ IF saving
           THEN /\ backend' = Save(backend, long_term.semantic, long_term.episodic)
                /\ last_save_time' = now
           ELSE UNCHANGED <<backend, last_save_time>>
        /\ call' = [op |-> "handler_returned", n |-> call.n, r |-> r]
        /\ result' = [outcome |-> "returned", response |-> response]
        /\ UNCHANGED <<max_size, now, added, constructed, config, request, before>>

\* The handler returns response: the outbound update, then _auto_save_if_needed,
\* whose two backend writes succeed or raise as the backend decides.
HandlerReturns(r, response) ==
    LET response_context == ExtractContext(response, "assistant:")
        session_id == GetSessionId(request[r].state)
        recorded == response_context # <<>>
        long_term == IF recorded
                     THEN UpdateLongTermMemory(semantic_memory, episodic_memory, config,
                                               response_context, 7, now)
                     ELSE [semantic |-> semantic_memory, episodic |-> episodic_memory]
        saving == now - last_save_time > AutoSaveInterval
    IN  /\ pc[r] = "handler"
        /\ pc' = [pc EXCEPT ![r] = "idle"]
        /\ items' = IF recorded
                    THEN WorkingMemoryAdd(items, max_size, response_context, 8, now)
                    ELSE items
        /\ session_memory' =
               IF recorded
               THEN UpdateSessionMemory(session_memory, session_id, response_context, now)
               ELSE session_memory
        /\ semantic_memory' = long_term.semantic
        /\ episodic_memory' = long_term.episodic
        /\ IF recorded
           THEN /\ extracted' = [extracted EXCEPT ![session_id] = @ \cup {response_context}]
                /\ log' = [log EXCEPT ![session_id] =
                              Append(@, [dir |-> "out", content |-> response_context])]
           ELSE UNCHANGED <<extracted, log>>
        /\ IF saving
           THEN /\ backend' = Save(backend, long_term.semantic, long_term.episodic)
                /\ last_save_time' = now
           ELSE UNCHANGED <<backend, last_save_time>>
        /\ call' = [op |-> "handler_returned", n |-> call.n, r |-> r]
        /\ result' = [outcome |-> "returned", response |-> response]
        /\ UNCHANGED <<max_size, now, added, constructed, config, request, before>>

\* ----------------------------------------------- the interceptor's inputs
\* The state bags the host carries: one with a session id and a thread id, one
\* with a thread id alone, one with neither.
StateA == [session_id |-> "A", thread_id |-> "T", agent_memory |-> <<"notes">>]
StateT == [session_id |-> "", thread_id |-> "T", agent_memory |-> <<>>]
StateNone == [session_id |-> "", thread_id |-> "", agent_memory |-> <<>>]
StateBags == {StateA, StateT, StateNone}

\* The request objects the host makes; the fourth is a later turn of the
\* conversation of the third, whose messages it still carries.
RequestChoices ==
    {[state |-> StateA, content |-> <<"hello">>, messages |-> <<>>,
      system_prompt |-> <<[kind |-> "system"]>>],
     [state |-> StateA, content |-> <<>>,
      messages |-> <<[type |-> "human", content |-> <<"world">>]>>,
      system_prompt |-> <<>>],
     [state |-> StateT, content |-> <<>>,
      messages |-> <<[type |-> "human", content |-> <<"Hello">>]>>,
      system_prompt |-> <<>>],
     [state |-> StateT, content |-> <<>>,
      messages |-> <<[type |-> "human", content |-> <<"Hello">>],
                     [type |-> "ai", content |-> <<"sure">>],
                     [type |-> "human", content |-> <<"world">>]>>,
      system_prompt |-> <<>>],
     [state |-> StateNone, content |-> <<>>, messages |-> <<>>,
      system_prompt |-> <<>>]}

\* The responses a handler returns: one without content, one with plain
\* content, one whose message reports dialogue and carries an importance keyword.
ResponseChoices ==
    {[content |-> <<>>, messages |-> <<>>],
     [content |-> <<"sure">>, messages |-> <<>>],
     [content |-> <<>>,
      messages |-> <<[type |-> "ai", content |-> <<"dialogue", "important">>]>>]}

\* A backend: what the reads of the two memory files give, and whether a write
\* of each file succeeds or raises.
AllWritable == [semantic |-> TRUE, episodic |-> TRUE]

\* Backends whose files are absent or hold well-formed items, and take writes.
HealthyBackends ==
    {[semantic |-> [kind |-> "empty"], episodic |-> [kind |-> "empty"],
      writable |-> AllWritable],
     [semantic |-> [kind |-> "items", data |-> Dumps(Loaded(1))],
      episodic |-> [kind |-> "items", data |-> Dumps(Loaded(2))],
      writable |-> AllWritable]}

DefaultConfig ==
    [enable_semantic_memory |-> TRUE, enable_episodic_memory |-> TRUE, legacy_mode |-> FALSE]

InitWith(backends, configs) ==
    /\ max_size = WorkingMemorySize
    /\ items = <<>>
    /\ added = <<>>
    /\ now = 0
    /\ semantic_memory = <<>>
    /\ episodic_memory = <<>>
    /\ call = [op |-> "none", n |-> 0]
    /\ result = <<>>
    /\ constructed = FALSE
    /\ config \in configs
    /\ backend \in backends
    /\ session_memory = [sid \in Sids |-> NoSession]
    /\ last_save_time = 0
    /\ request = [r \in ReqIds |-> NoRequest]
    /\ pc = [r \in ReqIds |-> "idle"]
    /\ before = [r \in ReqIds |-> NoSnapshot]
    /\ extracted = [sid \in Sids |-> {}]
    /\ log = [sid \in Sids |-> <<>>]

Init == InitWith(HealthyBackends, {DefaultConfig})

Next ==
    \/ Construct
    \/ Tick
    \/ \E state \in StateBags : BeforeAgent(state)
    \/ \E rq \in RequestChoices : Call("r1", rq)
    \/ CallAgain("r1")
    \/ HandlerRaises("r1")
    \/ \E response \in ResponseChoices : HandlerReturns("r1", response)

Spec == Init /\ [][Next]_vars

\* Backends of every behaviour: writes that raise, and reads that raise, that give
\* no text, that give text that does not parse, that give valid JSON holding a
\* value that is no memory item, and that give well-formed items.
AnyBackends ==
    HealthyBackends \cup
    {[semantic |-> [kind |-> "raises"], episodic |-> [kind |-> "unparsable"],
      writable |-> [semantic |-> FALSE, episodic |-> TRUE]],
     [semantic |-> [kind |-> "items", data |-> Dumps(Loaded(1))],
      episodic |-> [kind |-> "unparsable"],
      writable |-> [semantic |-> TRUE, episodic |-> FALSE]],
     [semantic |-> [kind |-> "raises"],
      episodic |-> [kind |-> "items", data |-> Dumps(Loaded(2))],
      writable |-> AllWritable],
     [semantic |-> [kind |-> "malformed", data |-> Dumps(<<BadItem>>)],
      episodic |-> [kind |-> "empty"], writable |-> AllWritable]}

InitBackend == InitWith(AnyBackends, {DefaultConfig})

\* The interceptor over a backend of any behaviour.
SpecBackend == InitBackend /\ [][Next]_vars

\* ---------------------------------------------- claims on the interceptor
\* The blocks of a system prompt that are of the given kind.
Blocks(system_prompt, kind) ==
    {i \in 1..Len(system_prompt) : system_prompt[i].kind = kind}

\* The sections called name of the context that heads a system prompt.
Sections(system_prompt, name) ==
    IF system_prompt # <<>> /\ system_prompt[1].kind = "context"
    THEN {system_prompt[1].parts[i] : i \in
             {j \in 1..Len(system_prompt[1].parts) : system_prompt[1].parts[j].name = name}}
    ELSE {}

\* The contents extracted in calls of other session ids than sid, and in none of sid.
Foreign(sid) == (UNION {extracted[other] : other \in Sids \ {sid}}) \ extracted[sid]

\* C5: the working-memory section and the session section of the context
\* assembled for a request of session id B hold no content that was extracted
\* from the calls of another session id A.
C5_SessionIsolation ==
    \A r \in ReqIds :
        pc[r] = "handler" =>
            LET sid == GetSessionId(request[r].state)
            IN  /\ \A sec \in Sections(request[r].system_prompt, "working") :
                       \A i \in 1..Len(sec.lines) : sec.lines[i] \notin Foreign(sid)
                /\ \A sec \in Sections(request[r].system_prompt, "session") :
                       \A c \in Foreign(sid) : ~Contains(sec.summary, c)

\* C6: when the handler raises, the working buffer, every session tracker and
\* both long-term sequences are exactly as they were before the call.
C6_FailedCallLeavesNoUpdate ==
    call.op = "handler_raised" => Layers = before[call.r]

\* C7: whatever the backend does, a call of wrap_model_call returns the
\* handler's response or raises what the handler raised: it never ends in an
\* exception of the memory subsystem.
C7_MemoryFailureNeverAborts ==
    call.op = "wrap_model_call" => result.outcome # "memory_raised"

\* C8: the system prompt handed to the handler holds the memory context block
\* once and the storage-path trailer once, also when the request object has
\* passed through the interceptor before.
C8_InjectedOnce ==
    \A r \in ReqIds :
        pc[r] = "handler" =>
            /\ Cardinality(Blocks(request[r].system_prompt, "context")) <= 1
            /\ Cardinality(Blocks(request[r].system_prompt, "trailer")) <= 1

\* The entries of a session's log that run in the given direction.
Entries(sid, dir) == SelectSeq(log[sid], LAMBDA e : e.dir = dir)

\* The contents of a log, one per line.
Lines(entries) == Join([i \in 1..Len(entries) |-> entries[i].content], "\n")

\* The positions at which text occurs in a sequence of tokens.
Occurrences(hay, text) ==
    {k \in 1..(Len(hay) - Len(text) + 1) : SubSeq(hay, k, k + Len(text) - 1) = text}

\* texts occur in hay one after the other, in their order, from position start
\* on: each at its earliest place behind the one before.
RECURSIVE InOrderFrom(_, _, _)
InOrderFrom(hay, texts, start) ==
    IF texts = <<>> THEN TRUE
    ELSE LET places == {k \in Occurrences(hay, Head(texts)) : k >= start}
         IN  /\ places # {}
             /\ InOrderFrom(hay, Tail(texts),
                            (CHOOSE k \in places : \A j \in places : k <= j)
                                + Len(Head(texts)))

\* texts occur in hay one after the other, in their order.
InOrder(hay, texts) == InOrderFrom(hay, texts, 1)

\* C9 as claimed: after n interception calls of one session id with inbound
\* texts t1..tn, the session context holds the texts in call order and
\* interaction_count is n.
C9_CountIsCalls ==
    \A sid \in Sids :
        Entries(sid, "in") # <<>> =>
            LET inbound == Entries(sid, "in")
                context == SessionGetContext(session_memory[sid])[1]
            IN  /\ InOrder(context.summary, [i \in 1..Len(inbound) |-> inbound[i].content])
                /\ context.interaction_count = Len(inbound)

\* C9, amended: after n interception calls of one session id with inbound texts
\* t1..tn, the session context holds the texts in call order, each followed by
\* the outbound content its call recorded, and interaction_count is n plus the
\* number of those calls whose handler returned non-empty outbound content.
C9_CountIsUpdates ==
    \A sid \in Sids :
        Entries(sid, "in") # <<>> =>
            LET inbound == Entries(sid, "in")
                context == SessionGetContext(session_memory[sid])[1]
            IN  /\ InOrder(context.summary, [i \in 1..Len(inbound) |-> inbound[i].content])
                /\ context.summary = Lines(log[sid])
                /\ context.interaction_count = Len(inbound) + Len(Entries(sid, "out"))

\* C9 witness: two calls of session A, "hello" then "world", the first of which
\* returned "sure": the summary holds the three lines in order and the count is 3.
C9_Witness ==
    /\ log["A"] = <<[dir |-> "in", content |-> <<"user:", "hello">>],
                    [dir |-> "out", content |-> <<"assistant:", "sure">>],
                    [dir |-> "in", content |-> <<"user:", "world">>]>>
    /\ session_memory["A"].interaction_count = 3
    /\ session_memory["A"].conversation_summary =
           <<"user:", "hello", "\n", "assistant:", "sure", "\n", "user:", "world">>

\* C10: with no data added, the context of each of the three layers is empty:
\* of the working buffer, of a freshly created tracker, of the long-term store.
C10_EmptyContextIsEmpty ==
    /\ items = <<>> => WorkingGetContext(items, WorkingMaxItems) = <<>>
    /\ \A sid \in Sids :
           (/\ session_memory[sid] # NoSession
            /\ session_memory[sid].interaction_count = 0
            /\ session_memory[sid].conversation_summary = <<>>
            /\ session_memory[sid].key_topics = <<>>)
               => SessionGetContext(session_memory[sid]) = <<>>
    /\ (semantic_memory = <<>> /\ episodic_memory = <<>>)
           => LongTermGetContext(semantic_memory, episodic_memory, LongTermMaxItems) = <<>>

\* ------------------------------------------------- claims on persistence
\* The step in which the handler of request r returns and wrap_model_call ends.
ReturnStep(r) == pc[r] = "handler" /\ pc'[r] = "idle" /\ call'.op = "handler_returned"

\* Whether _auto_save_if_needed, called now, finds the interval exceeded.
Elapsed == now - last_save_time > AutoSaveInterval

\* C11: at the end of a successful invocation save() is attempted exactly when
\* the time since the last save exceeds auto_save_interval, and the recorded
\* last-save time advances only when both writes of the save succeeded.
C11_Step ==
    \A r \in ReqIds :
        ReturnStep(r) =>
            /\ backend' = IF Elapsed THEN Save(backend, semantic_memory', episodic_memory')
                          ELSE backend
            /\ last_save_time' =
                   IF Elapsed /\ backend.writable.semantic /\ backend.writable.episodic
                   THEN now ELSE last_save_time
            /\ result'.outcome = "returned"
C11_ThrottledPersistence == [][C11_Step]_vars

\* C12: LongTermMemory.load never raises and loads the two sequences
\* independently: a file whose read raises, gives no text or does not parse
\* leaves its sequence empty, and the other file is loaded all the same.
C12_LoadIndependence ==
    call.op = "init" =>
        /\ result = <<>>
        /\ backend.semantic.kind \in {"raises", "unparsable", "empty"} => semantic_memory = <<>>
        /\ backend.episodic.kind \in {"raises", "unparsable", "empty"} => episodic_memory = <<>>
        /\ backend.semantic.kind = "items" =>
               semantic_memory # <<>> /\ Dumps(semantic_memory) = backend.semantic.data
        /\ backend.episodic.kind = "items" =>
               episodic_memory # <<>> /\ Dumps(episodic_memory) = backend.episodic.data

\* C12 witness: the read of the semantic file raised and the episodic file was
\* loaded; on another backend the episodic file did not parse and the semantic
\* file was loaded.
C12_Witness ==
    /\ call.op = "init"
    /\ \/ backend.semantic.kind = "raises" /\ Len(episodic_memory) = 2
       \/ backend.episodic.kind = "unparsable" /\ Len(semantic_memory) = 1

\* C13: LongTermMemory.save never raises and makes both writes: each file
\* holds the text of its sequence afterwards exactly when its own write
\* succeeds, whatever the other write does, and the sequences are as they were.
C13_Step ==
    \A r \in ReqIds :
        (ReturnStep(r) /\ Elapsed) =>
            /\ backend'.semantic = IF backend.writable.semantic
                                   THEN Written(semantic_memory') ELSE backend.semantic
            /\ backend'.episodic = IF backend.writable.episodic
                                   THEN Written(episodic_memory') ELSE backend.episodic
            /\ result'.outcome = "returned"
C13_SaveIndependence == [][C13_Step]_vars

\* C13 witness: a save whose semantic write raised and whose episodic write
\* put the episodic sequence into its file.
C13_Witness ==
    /\ call.op = "handler_returned"
    /\ ~backend.writable.semantic
    /\ backend.semantic.kind = "raises"
    /\ episodic_memory # <<>>
    /\ backend.episodic = Written(episodic_memory)

\* C14: after a save on a backend that gives back what was written, load on a
\* new LongTermMemory yields sequences equal to the saved ones, item by item
\* and key by key.
C14_Step ==
    \A r \in ReqIds :
        (ReturnStep(r) /\ Elapsed) =>
            Load(backend') = [semantic |-> semantic_memory', episodic |-> episodic_memory']
AgentReads == {"raises", "empty", "blank", "text"}

\* The enable_layered argument: None, True or False.
EnableChoices == {"none", "true", "false"}

\* The extra keyword arguments a caller passes on: none, one that
\* LayeredMemoryMiddleware.__init__ alone accepts (auto_save_interval), or one
\* that AgentMemoryMiddleware.__init__ alone accepts (system_prompt_template).
KwargChoices == {"none", "layered_only", "legacy_only"}

\* create_memory_middleware(mode=..., **kwargs): the configuration it returns,
\* or "raised" when a constructor rejects a keyword argument.
CreateMemoryMiddleware(mode, kwargs) ==
    CASE mode = "legacy" -> IF kwargs = "layered_only" THEN "raised" ELSE "legacy"
      [] mode = "layered" -> IF kwargs = "legacy_only" THEN "raised" ELSE "layered"
      [] OTHER -> IF kwargs # "none" THEN "raised" ELSE "hybrid"

\* MemoryMiddlewareFactory.auto_upgrade_memory: the configuration it returns, or
\* "raised". The try of the detection encloses the read and both constructions,
\* and its except constructs the layered configuration.
AutoUpgradeSelect(agent_data, enable_layered, kwargs) ==
    IF enable_layered = "none"
    THEN LET tried == CASE agent_data = "raises" -> "raised"
                        [] agent_data = "text" -> CreateMemoryMiddleware("hybrid", kwargs)
                        [] OTHER -> CreateMemoryMiddleware("layered", kwargs)
         IN  IF tried = "raised" THEN CreateMemoryMiddleware("layered", kwargs) ELSE tried
    ELSE IF enable_layered = "true" THEN CreateMemoryMiddleware("layered", kwargs)
    ELSE CreateMemoryMiddleware("legacy", kwargs)

\* A host calls auto_upgrade_memory; a layered or hybrid configuration holds a
\* LayeredMemoryMiddleware, constructed in the call, in compatibility mode when
\* the configuration is hybrid.
AutoUpgradeMemory(agent_data, enable_layered, kwargs) ==
    LET selected == AutoUpgradeSelect(agent_data, enable_layered, kwargs)
        made == selected \in {"layered", "hybrid"}
        cfg == [config EXCEPT !.legacy_mode = (selected = "hybrid")]
    IN  /\ ~constructed
        /\ call.op = "none"
        /\ constructed' = made
        /\ config' = IF made THEN cfg ELSE config
        /\ IF made /\ (cfg.enable_semantic_memory \/ cfg.enable_episodic_memory)
           THEN /\ semantic_memory' = Load(backend).semantic
                /\ episodic_memory' = Load(backend).episodic
           ELSE UNCHANGED <<semantic_memory, episodic_memory>>
        /\ last_save_time' = IF made THEN now ELSE last_save_time
        /\ call' = [op |-> "auto_upgrade_memory", n |-> call.n, agent_data |-> agent_data,
                    enable_layered |-> enable_layered, kwargs |-> kwargs]
        /\ result' = [outcome |-> selected]
        /\ UNCHANGED <<items, max_size, now, added, backend, session_memory, request,
                       pc, before, extracted, log>>

InitFactory == InitWith(HealthyBackends, {DefaultConfig})

NextFactory ==
    \/ \E agent_data \in AgentReads, enable_layered \in EnableChoices, kwargs \in KwargChoices :
           AutoUpgradeMemory(agent_data, enable_layered, kwargs)
    \/ Tick
    \/ \E state \in StateBags : BeforeAgent(state)
    \/ \E rq \in RequestChoices : Call("r1", rq)
    \/ CallAgain("r1")
    \/ HandlerRaises("r1")
    \/ \E response \in ResponseChoices : HandlerReturns("r1", response)

\* The interceptor as the factory configures it.
SpecFactory == InitFactory /\ [][NextFactory]_vars

\* C15: with no explicit choice, auto_upgrade_memory selects the hybrid
\* configuration exactly when the read of /agent.md succeeds with non-blank
\* text, and the pure layered configuration when the text is empty or blank or
\* the read raises.
C15_AutoUpgrade ==
    (call.op = "auto_upgrade_memory" /\ call.enable_layered = "none") =>
        /\ result.outcome = "hybrid" <=> call.agent_data = "text"
        /\ call.agent_data # "text" => result.outcome = "layered"

\* ------------------------------------------- claims on the interceptor's steps
\* The step in which wrap_model_call is entered with request r.
EnterStep(r) == call'.op = "wrap_model_call" /\ call'.n = call.n + 1 /\ call'.r = r

\* The session id the claim gives a state: its session_id when non-empty, else
\* its thread_id when non-empty, else "default".
Resolved(state) ==
    CASE state.session_id # "" -> state.session_id
      [] state.thread_id # "" -> state.thread_id
      [] OTHER -> "default"

\* C16: an invocation updates and reads the tracker of the resolved session id
\* and no other; the id is session_id, else thread_id, else "default", so
\* invocations without an identifier share the tracker "default".
C16_Step ==
    \A r \in ReqIds :
        /\ EnterStep(r) =>
               LET sid == Resolved(request'[r].state)
               IN  /\ \A other \in Sids \ {sid} : session_memory'[other] = session_memory[other]
                   /\ pc'[r] = "handler" =>
                          Sections(request'[r].system_prompt, "session") =
                              IF session_memory'[sid] = NoSession THEN {}
                              ELSE {SessionGetContext(session_memory'[sid])[1]}
        /\ ReturnStep(r) =>
               \A other \in Sids \ {Resolved(request[r].state)} :
                   session_memory'[other] = session_memory[other]
C16_SessionIdResolution == [][C16_Step]_vars

\* C16 witness: the second of two invocations without an identifier is under
\* way, the first one's response is in the tracker "default", which the second
\* reads, and there is no other tracker.
C16_Witness ==
    /\ pc["r1"] = "handler"
    /\ call.n = 2
    /\ Resolved(request["r1"].state) = "default"
    /\ session_memory["default"] # NoSession
    /\ session_memory["default"].interaction_count = 1
    /\ session_memory["A"] = NoSession /\ session_memory["T"] = NoSession
    /\ \E sec \in Sections(request["r1"].system_prompt, "session") : sec.interaction_count = 1

\* The human-authored messages of a message sequence, by position.
Humans(messages) == {i \in 1..Len(messages) : messages[i].type = "human"}

\* The latest human-authored message of a message sequence that has one.
LatestHuman(messages) ==
    messages[CHOOSE i \in Humans(messages) : \A j \in Humans(messages) : j <= i]

\* C17: the inbound content recorded for a request that carries messages is the
\* text of its latest human-authored message alone, so that a message of an
\* earlier invocation is not recorded again.
C17_LatestHumanOnly ==
    (/\ call.op = "wrap_model_call"
     /\ request[call.r].content = <<>>
     /\ Humans(request[call.r].messages) # {}) =>
        LET inbound == Entries(GetSessionId(request[call.r].state), "in")
        IN  inbound[Len(inbound)].content =
                <<"user:">> \o LatestHuman(request[call.r].messages).content

\* The outbound content of the response that the latest step returned.
Outbound == ExtractContext(result'.response, "assistant:")

\* The newest entry of a sequence.
Last(seq) == seq[Len(seq)]

\* Whether some item of mem holds the content with the importance, stamped t.
Holds(mem, content, importance, t) ==
    \E i \in 1..Len(mem) :
        /\ mem[i].content = content
        /\ mem[i].importance = importance
        /\ mem[i].timestamp = t

\* The sequence the classifier files a content under, after the step, and
\* whether the addition made the sequence long enough to be pruned.
Filed(content) ==
    IF HasKeyword(content, DialogueKeywords) THEN episodic_memory' ELSE semantic_memory'
Pruning(content) ==
    IF HasKeyword(content, DialogueKeywords)
    THEN Len(episodic_memory) + 1 > EpisodicLimit
    ELSE Len(semantic_memory) + 1 > SemanticLimit

\* C18 as claimed: non-empty outbound content without an importance keyword is
\* added to the working buffer with importance 0.8 and to the long-term store
\* as an item of importance 0.8.
C18_Step ==
    \A r \in ReqIds :
        (/\ ReturnStep(r)
         /\ Outbound # <<>>
         /\ ~HasKeyword(Outbound, ImportanceKeywords)) =>
            /\ Last(items').content = Outbound
            /\ Last(items').importance = 8
            /\ Holds(Filed(Outbound), Outbound, 8, now) \/ Pruning(Outbound)
C18_OutboundImportance == [][C18_Step]_vars

\* C18, amended: the content is added to the working buffer with importance
\* 0.8 and to the long-term store as an item of importance 0.7.
C18_AmendedStep ==
    \A r \in ReqIds :
        (/\ ReturnStep(r)
         /\ Outbound # <<>>
         /\ ~HasKeyword(Outbound, ImportanceKeywords)) =>
            /\ Last(items').content = Outbound
            /\ Last(items').importance = 8
            /\ Holds(Filed(Outbound), Outbound, 7, now) \/ Pruning(Outbound)
C18_OutboundImportanceAmended == [][C18_AmendedStep]_vars

\* C18 witness: the handler returned "sure"; the buffer's newest entry has
\* importance 0.8, the newest semantic item importance 0.7.
C18_Witness ==
    /\ call.op = "handler_returned"
    /\ result.response.content = <<"sure">>
    /\ Last(items) = [content |-> <<"assistant:", "sure">>, importance |-> 8,
                      timestamp |-> now]
    /\ semantic_memory # <<>>
    /\ Last(semantic_memory).content = <<"assistant:", "sure">>
    /\ Last(semantic_memory).importance = 7

\* C19: with both categories enabled, a classified content is appended to one
\* sequence alone, the episodic one exactly when it holds a dialogue keyword;
\* its importance is raised by 0.3 and capped at 1.0 exactly when it holds an
\* importance keyword, and lies within [0, 1].
C19_Step ==
    \A r \in ReqIds :
        (/\ ReturnStep(r)
         /\ Outbound # <<>>
         /\ config.enable_semantic_memory /\ config.enable_episodic_memory) =>
            LET importance == IF HasKeyword(Outbound, ImportanceKeywords)
                              THEN Min(10, 7 + 3) ELSE 7
            IN  /\ importance \in 0..10
                /\ Holds(Filed(Outbound), Outbound, importance, now) \/ Pruning(Outbound)
                /\ IF HasKeyword(Outbound, DialogueKeywords)
                   THEN /\ semantic_memory' = semantic_memory
                        /\ Last(episodic_memory').content = Outbound
                        /\ Last(episodic_memory').importance = importance
                   ELSE episodic_memory' = episodic_memory
C19_Classifier == [][C19_Step]_vars

\* C19 witness: the handler returned a message that reports dialogue and holds
\* an importance keyword; it is the newest episodic item, with importance 1.0,
\* and the semantic sequence is as it was loaded.
C19_Witness ==
    /\ call.op = "handler_returned"
    /\ call.n = 1
    /\ episodic_memory # <<>>
    /\ Last(episodic_memory).content = <<"assistant:", "dialogue", "important">>
    /\ Last(episodic_memory).importance = 10
    /\ Len(episodic_memory) = 3
    /\ semantic_memory = Load(backend).semantic

\* The context assembled for the request that has just entered wrap_model_call:
\* the parts of the block that heads its system prompt, none when no block does.
Assembled ==
    LET system_prompt == request[call.r].system_prompt
    IN  IF system_prompt # <<>> /\ system_prompt[1].kind = "context"
        THEN system_prompt[1].parts ELSE <<>>

\* The names of the sub-contexts that have something to show, in the fixed order.
Expected ==
    LET state == request[call.r].state
        present ==
            [working |-> items # <<>>,
             session |-> session_memory[Resolved(state)] # NoSession,
             longterm |-> /\ config.enable_semantic_memory \/ config.enable_episodic_memory
                          /\ semantic_memory # <<>> \/ episodic_memory # <<>>,
             legacy |-> config.legacy_mode /\ state.agent_memory # <<>>]
    IN  SelectSeq(<<"working", "session", "longterm", "legacy">>, LAMBDA name : present[name])

\* C20: the assembled context is the working-memory context, the session
\* context of the resolved session id, the long-term context and, in
\* compatibility mode alone, the legacy text, in this order; an empty
\* sub-context contributes nothing, and nothing is assembled when all are empty.
C20_ContextAssembly ==
    (call.op = "wrap_model_call" /\ pc[call.r] = "handler") =>
        /\ [i \in 1..Len(Assembled) |-> Assembled[i].name] = Expected
        /\ \A i \in 1..Len(Assembled) :
               CASE Assembled[i].name = "working" ->
                        Assembled[i].lines = BufferContents(SliceLast(items, WorkingMaxItems))
                 [] Assembled[i].name = "session" ->
                        Assembled[i].summary =
                            session_memory[Resolved(request[call.r].state)].conversation_summary
                 [] Assembled[i].name = "longterm" ->
                        Len(Assembled[i].semantic) + Len(Assembled[i].episodic) > 0
                 [] OTHER -> Assembled[i].text = request[call.r].state.agent_memory
        /\ Expected = <<>> => Blocks(request[call.r].system_prompt, "context") = {}

\* C20 witness: in compatibility mode, for a request whose state carries the
\* legacy text, all four sub-contexts are assembled, in the fixed order.
C20_Witness ==
    /\ call.op = "wrap_model_call"
    /\ pc[call.r] = "handler"
    /\ config.legacy_mode
    /\ [i \in 1..Len(Assembled) |-> Assembled[i].name] =
           <<"working", "session", "longterm", "legacy">>
    /\ Assembled[4].text = <<"notes">>

\* ------------------------------------------------ claims on the injection step
\* The memory context built for the request that enters wrap_model_call in this
\* step, from the layers as the inbound update has left them.
BuiltContext(r) ==
    BuildMemoryContext(items', session_memory', semantic_memory', episodic_memory',
                       config', request'[r].state)

\* C21: when the built context is non-empty the system instructions the handler
\* receives are the context, then the instructions the request carried on entry
\* if any, then the fixed trailer; when the context is empty the instructions
\* are the ones the request carried, with no trailer.
C21_Step ==
    \A r \in ReqIds :
        (EnterStep(r) /\ pc'[r] = "handler") =>
            LET prior == call'.system_prompt
            IN  request'[r].system_prompt =
                    IF BuiltContext(r) = <<>> THEN prior
                    ELSE <<[kind |-> "context", parts |-> BuiltContext(r)]>>
                         \o prior
                         \o <<[kind |-> "trailer"]>>
C21_Injection == [][C21_Step]_vars

\* C21 witness: a request that carried system instructions has reached the
\* handler with the context before them and the trailer after them.
C21_Witness ==
    /\ call.op = "wrap_model_call"
    /\ pc[call.r] = "handler"
    /\ call.system_prompt = <<[kind |-> "system"]>>
    /\ Len(request[call.r].system_prompt) = 3
    /\ request[call.r].system_prompt[1].kind = "context"
    /\ request[call.r].system_prompt[2] = [kind |-> "system"]
    /\ request[call.r].system_prompt[3] = [kind |-> "trailer"]

\* The inbound content of the request that enters wrap_model_call in this step.
Inbound(r) == ExtractContext(request'[r], "user:")

\* C22: up to the handler, an invocation with non-empty inbound content adds the
\* content to the working buffer with importance 1.0 and to the tracker of the
\* resolved session, and changes nothing else: the long-term sequences and the
\* backend are as they were; with empty inbound content no layer changes.
C22_Step ==
    \A r \in ReqIds :
        EnterStep(r) =>
            LET sid == Resolved(request'[r].state)
                old == IF session_memory[sid] = NoSession THEN NewSession(now)
                       ELSE session_memory[sid]
            IN  /\ semantic_memory' = semantic_memory
                /\ episodic_memory' = episodic_memory
                /\ backend' = backend
                /\ last_save_time' = last_save_time
                /\ \A other \in Sids \ {sid} : session_memory'[other] = session_memory[other]
                /\ IF Inbound(r) # <<>>
                   THEN /\ items' = DequeAppend(items, max_size,
                                        [content |-> Inbound(r), timestamp |-> now,
                                         importance |-> 10])
                        /\ session_memory'[sid] # NoSession
                        /\ session_memory'[sid].interaction_count = old.interaction_count + 1
                        /\ session_memory'[sid].start_time = old.start_time
                        /\ session_memory'[sid].conversation_summary =
                               Strip(old.conversation_summary \o <<"\n">> \o Inbound(r))
                   ELSE /\ items' = items
                        /\ session_memory' = session_memory
C22_PreDelegateFrame == [][C22_Step]_vars

\* C22 witness: the handler has been entered with non-empty inbound content on
\* an instance that loaded long-term items; the inbound entry ends the working
\* buffer with importance 1.0 and the long-term sequences are the loaded ones.
C22_Witness ==
    /\ call.op = "wrap_model_call"
    /\ call.n = 1
    /\ pc[call.r] = "handler"
    /\ ExtractContext(request[call.r], "user:") # <<>>
    /\ Last(items).content = ExtractContext(request[call.r], "user:")
    /\ Last(items).importance = 10
    /\ session_memory[Resolved(request[call.r].state)].interaction_count = 1
    /\ semantic_memory # <<>>
    /\ semantic_memory = Load(backend).semantic
    /\ episodic_memory = Load(backend).episodic

\* ------------------------------------------------- claims on search and items
\* The matching items of the scope of the search made in this step, by sequence
\* and position.
Matching ==
    {m \in {"semantic", "episodic"} \X (1..(Len(semantic_memory') + Len(episodic_memory'))) :
        /\ m[1] \in ScopeOf(call'.memory_type)
        /\ m[2] <= Len(IF m[1] = "semantic" THEN semantic_memory' ELSE episodic_memory')
        /\ ContainsIgnoringCase(
               (IF m[1] = "semantic" THEN semantic_memory' ELSE episodic_memory')[m[2]].content,
               call'.query)}

\* The entry search_memory returns for a matching item: the item as the search
\* left it, with its type.
Entry(m) ==
    LET it == (IF m[1] = "semantic" THEN semantic_memory' ELSE episodic_memory')[m[2]]
    IN  [content |-> it.content, timestamp |-> it.timestamp, importance |-> it.importance,
         tags |-> it.tags, access_count |-> it.access_count,
         last_accessed |-> it.last_accessed, type |-> m[1]]

\* a orders before b by (importance, last_accessed) descending.
Outranks(a, b) ==
    \/ a.importance > b.importance
    \/ a.importance = b.importance /\ a.last_accessed > b.last_accessed

C23_Step ==
    (call'.op = "search" /\ call'.n = call.n + 1) =>
        /\ Len(result') = Min(call'.limit, Cardinality(Matching))
        /\ \A i, j \in 1..Len(result') : i < j => ~Outranks(result'[j], result'[i])
        /\ \A k \in 1..Len(result') :
               /\ \E m \in Matching : Entry(m) = result'[k]
               /\ Count(result', result'[k]) <=
                      Cardinality({m \in Matching : Entry(m) = result'[k]})
        /\ \A m \in Matching :
               (\E k \in 1..Len(result') : Outranks(Entry(m), result'[k])) =>
                   Count(result', Entry(m)) =
                       Cardinality({o \in Matching : Entry(o) = Entry(m)})

\* C23: search_memory returns matching items of the searched scope only, each
\* no more often than it matched, ordered by (importance, last_accessed)
\* descending with semantic and episodic matches ranked together, and as many
\* as min(limit, number of matches): no match left out ranks before a returned one.
C23_SearchOrder == [][C23_Step]_vars

\* C23 witness: a search of both sequences returned more than two entries, an
\* episodic entry ahead of a semantic one of lower importance.
C23_Witness ==
    /\ call.op = "search"
    /\ call.memory_type = "all"
    /\ Len(result) > 2
    /\ \E i, j \in 1..Len(result) :
           /\ i < j
           /\ result[i].type = "episodic" /\ result[j].type = "semantic"
           /\ result[i].importance > result[j].importance

\* ------------------------------------ LongTermMemory with get_context and save
\* The max_items offered to LongTermMemory.get_context: the default and 2.
ContextSizes == {LongTermMaxItems, 2}

\* A LongTermMemory on a backend that takes every write, holding nothing, a
\* sequence at the limit or a longer one.
InitItems ==
    /\ max_size = 0
    /\ items = <<>>
    /\ added = <<>>
    /\ now = 0
    /\ \E k \in {"empty", "full", "overlong"} :
           /\ semantic_memory = Loaded(LoadedLength(k, SemanticLimit))
           /\ episodic_memory = Loaded(LoadedLength(k, EpisodicLimit))
    /\ call = [op |-> "none", n |-> 0]
    /\ result = <<>>
    /\ constructed = FALSE
    /\ config = DefaultConfig
    /\ backend = [semantic |-> [kind |-> "empty"], episodic |-> [kind |-> "empty"],
                  writable |-> AllWritable]
    /\ session_memory = [sid \in Sids |-> NoSession]
    /\ last_save_time = 0
    /\ request = [r \in ReqIds |-> NoRequest]
    /\ pc = [r \in ReqIds |-> "idle"]
    /\ before = [r \in ReqIds |-> NoSnapshot]
    /\ extracted = [sid \in Sids |-> {}]
    /\ log = [sid \in Sids |-> <<>>]

\* LongTermMemory.get_context(max_items)
GetContextLTM(max_items) ==
    /\ call.n < MaxOps
    /\ result' = LongTermGetContext(semantic_memory, episodic_memory, max_items)
    /\ call' = [op |-> "get_context", n |-> call.n + 1, max_items |-> max_items]
    /\ UNCHANGED <<semantic_memory, episodic_memory, now, items, max_size, added, mwVars>>

\* LongTermMemory.save()
SaveLTM ==
    /\ call.n < MaxOps
    /\ backend' = Save(backend, semantic_memory, episodic_memory)
    /\ call' = [op |-> "save", n |-> call.n + 1]
    /\ result' = <<>>
    /\ UNCHANGED <<semantic_memory, episodic_memory, now, items, max_size, added,
                   constructed, config, session_memory, last_save_time, request, pc,
                   before, extracted, log>>

NextItems ==
    \/ \E c \in LTMContents, imp \in LTMImportances, t \in Readings : AddSemantic(c, imp, t)
    \/ \E c \in LTMContents, imp \in LTMImportances, t \in Readings : AddEpisodic(c, imp, t)
    \/ \E q \in LTMQueries, mt \in MemoryTypes, l \in Limits, t \in Readings :
           Search(q, mt, l, t)
    \/ \E m \in ContextSizes : GetContextLTM(m)
    \/ SaveLTM

SpecItems == InitItems /\ [][NextItems]_vars

\* Every item was last accessed no earlier than it was created and has been
\* counted no less than zero times.
ItemsSound(mem) ==
    \A i \in 1..Len(mem) :
        mem[i].last_accessed >= mem[i].timestamp /\ mem[i].access_count >= 0

\* What a call may do to the items: an insert adds an item never accessed and
\* leaves every item it retains as it was; a search counts and stamps the
\* matching items of its scope and no other; get_context and save change none.
C24_Step ==
    LET c == call'
    IN  (c.n = call.n + 1) =>
            CASE c.op = "add_semantic" ->
                     /\ c.item.access_count = 0
                     /\ c.item.last_accessed >= c.item.timestamp
                     /\ SubBag(semantic_memory', Append(semantic_memory, c.item))
                     /\ episodic_memory' = episodic_memory
              [] c.op = "add_episodic" ->
                     /\ c.item.access_count = 0
                     /\ c.item.last_accessed >= c.item.timestamp
                     /\ SubBag(episodic_memory', Append(episodic_memory, c.item))
                     /\ semantic_memory' = semantic_memory
              [] c.op = "search" ->
                     /\ SearchEffect(semantic_memory, semantic_memory', "semantic", c)
                     /\ SearchEffect(episodic_memory, episodic_memory', "episodic", c)
              [] OTHER ->
                     /\ semantic_memory' = semantic_memory
                     /\ episodic_memory' = episodic_memory

\* C24: over any sequence of add_semantic_memory, add_episodic_memory,
\* search_memory, get_context and save with a clock that never runs backwards,
\* every item has last_accessed >= timestamp and access_count >= 0, and its
\* access_count is the number of searches that matched it since it was made:
\* it starts at 0, each matching search raises it by 1, and no insert, pruning,
\* get_context or save changes it or last_accessed on a retained item.
C24_ItemInvariant ==
    /\ [](ItemsSound(semantic_memory) /\ ItemsSound(episodic_memory))
    /\ [][C24_Step]_vars

\* C24 witness: on a store that started empty, the one item added has been
\* matched by two searches, the later of them after the clock moved on.
C24_Witness ==
    /\ call.op = "search"
    /\ episodic_memory = <<>>
    /\ Len(semantic_memory) = 1
    /\ semantic_memory[1].access_count = 2
    /\ semantic_memory[1].last_accessed > semantic_memory[1].timestamp

\* ------------------------------------------- WorkingMemory with get_context
\* The max_items offered to WorkingMemory.get_context.
WMContextSizes == 0..(MaxSize + 1)

\* One call WorkingMemory.get_context(max_items).
GetContextWM(max_items) ==
    /\ result' = WorkingGetContext(items, max_items)
    /\ call' = [op |-> "get_context", n |-> call.n, max_items |-> max_items]
    /\ UNCHANGED <<items, max_size, now, added, semantic_memory, episodic_memory, mwVars>>

NextWMContext ==
    \/ \E c \in WMContents, imp \in WMImportances : Add(c, imp)
    \/ \E m \in WMContextSizes : GetContextWM(m)

SpecWMContext == InitWM /\ [][NextWMContext]_vars

\* C25: get_context(max_items) with max_items >= 0 renders exactly
\* min(max_items, len(buffer)) numbered entries, the most recently added ones
\* in insertion order, and returns the empty result when that number is 0.
C25_Step ==
    (call'.op = "get_context" /\ added' = added) =>
        LET k == Min(call'.max_items, Len(items))
        IN  IF k = 0 THEN result' = <<>>
            ELSE /\ Len(result') = 1
                 /\ result'[1].lines =
                        BufferContents(SubSeq(items, Len(items) - k + 1, Len(items)))
C25_RecentEntries == [][C25_Step]_vars

\* ------------------------------------------------- concurrent invocations
\* The request of each of two invocations for session A, and the responses its
\* handler may return: none with content, or one that only this invocation gets.
AsyncRequest(r) ==
    IF r = "r1"
    THEN [state |-> StateA, content |-> <<"hello">>, messages |-> <<>>,
          system_prompt |-> <<[kind |-> "system"]>>]
    ELSE [state |-> StateA, content |-> <<>>,
          messages |-> <<[type |-> "human", content |-> <<"world">>]>>,
          system_prompt |-> <<>>]
AsyncResponses(r) ==
    {[content |-> <<>>, messages |-> <<>>],
     IF r = "r1"
     THEN [content |-> <<"sure">>, messages |-> <<>>]
     ELSE [content |-> <<>>,
           messages |-> <<[type |-> "ai", content |-> <<"dialogue", "important">>]>>]}

\* The host awaits awrap_model_call with a request object of its own, whatever
\* the other invocation is doing.
CallAsync(r) ==
    /\ constructed
    /\ call.n < MaxCalls
    /\ pc[r] = "idle"
    /\ request[r] = NoRequest
    /\ EnterModelCall(r, AsyncRequest(r))

\* awrap_model_call runs from its entry to "await handler(request)" and from
\* the handler's return to its own return without a suspension: the two
\* invocations interleave at the handler alone.
NextAsync ==
    \/ Construct
    \/ Tick
    \/ \E r \in ReqIds : CallAsync(r)
    \/ \E r \in ReqIds : HandlerRaises(r)
    \/ \E r \in ReqIds : \E response \in AsyncResponses(r) : HandlerReturns(r, response)

SpecAsync == Init /\ [][NextAsync]_vars

\* The inbound content of invocation r and the outbound contents it may record.
InboundOf(r) == ExtractContext(AsyncRequest(r), "user:")
OutboundsOf(r) ==
    {ExtractContext(response, "assistant:") : response \in AsyncResponses(r)} \ {<<>>}

\* C26: two invocations of one instance for the same session id that suspend at
\* the handler alone, under every interleaving: every non-empty inbound and
\* outbound content is recorded exactly once in the session summary and
\* interaction_count is the number of those updates, none lost; in the working
\* buffer the inbound entry of an invocation precedes its own outbound entry.
C26_Interleaving ==
    LET session == session_memory["A"]
        updates == log["A"]
    IN  /\ \A r \in ReqIds :
               request[r] # NoRequest =>
                   \E i \in 1..Len(updates) :
                       updates[i] = [dir |-> "in", content |-> InboundOf(r)]
        /\ (call.op = "handler_returned"
                /\ ExtractContext(result.response, "assistant:") # <<>>) =>
               /\ updates # <<>>
               /\ Last(updates) = [dir |-> "out",
                                   content |-> ExtractContext(result.response, "assistant:")]
        /\ updates # <<>> =>
               /\ session # NoSession
               /\ session.interaction_count = Len(updates)
               /\ \A i \in 1..Len(updates) :
                      /\ Count(updates, updates[i]) = 1
                      /\ Cardinality(Occurrences(session.conversation_summary,
                                                 updates[i].content)) = 1
               /\ InOrder(session.conversation_summary,
                          [i \in 1..Len(updates) |-> updates[i].content])
        /\ \A r \in ReqIds : \A i, j \in 1..Len(items) :
               (items[i].content = InboundOf(r) /\ items[j].content \in OutboundsOf(r)) => i < j

\* C26 witness: both invocations were at the handler together, and the one that
\* entered second returned first; the tracker counts the four updates and the
\* buffer of three holds the later inbound entry ahead of both outbound entries.
C26_Witness ==
    /\ log["A"] = <<[dir |-> "in", content |-> <<"user:", "hello">>],
                    [dir |-> "in", content |-> <<"user:", "world">>],
                    [dir |-> "out", content |-> <<"assistant:", "dialogue", "important">>],
                    [dir |-> "out", content |-> <<"assistant:", "sure">>]>>
    /\ session_memory["A"].interaction_count = 4
    /\ pc = [r \in ReqIds |-> "idle"]
    /\ BufferContents(items) = <<<<"user:", "world">>,
                                 <<"assistant:", "dialogue", "important">>,
                                 <<"assistant:", "sure">>>>

\* ------------------------------------------------ explicit saves and cleanup
\* save_all_memories(), which cleanup() calls: LongTermMemory.save swallows the
\* failures of its writes, so last_save_time is set whatever the backend did.
SaveAllMemories ==
    /\ constructed
    /\ backend' = Save(backend, semantic_memory, episodic_memory)
    /\ last_save_time' = now
    /\ call' = [op |-> "save_all_memories", n |-> call.n]
    /\ result' = <<>>
    /\ UNCHANGED <<items, max_size, now, added, semantic_memory, episodic_memory,
                   constructed, config, session_memory, request, pc, before, extracted, log>>

\* The interceptor with the explicit save among its operations.
NextSaving ==
    \/ Next
    \/ SaveAllMemories

\* An instance on any backend, healthy or failing.
SpecDurable == InitBackend /\ [][NextSaving]_vars

\* The two memory files, by the name of their sequence.
Files == {"semantic", "episodic"}
KeepOf(f) == IF f = "semantic" THEN SemanticKeep ELSE EpisodicKeep

\* C27: what an earlier run persisted leaves the backend through capacity
\* pruning alone: a file that load() could not read or parse at construction
\* is not overwritten by a later automatic or explicit save, and a file that
\* was loaded is rewritten with every item it held unless the sequence was pruned.
C27_Step ==
    \A f \in Files :
        /\ backend[f].kind \in {"raises", "unparsable"} => backend'[f] = backend[f]
        /\ (backend[f].kind = "items" /\ backend'[f] # backend[f]) =>
               /\ backend'[f].kind = "items"
               /\ \/ SubBag(Loads(backend[f].data), Loads(backend'[f].data))
                  \/ Len(Loads(backend'[f].data)) = KeepOf(f)
C27_Durability == [][C27_Step]_vars

\* ------------------------------------------------ long-term memory disabled
\* enable_semantic_memory=False, enable_episodic_memory=False
DisabledConfig ==
    [enable_semantic_memory |-> FALSE, enable_episodic_memory |-> FALSE, legacy_mode |-> FALSE]

InitDisabled == InitWith(HealthyBackends, {DisabledConfig})

\* An instance with both long-term sequences disabled, on a healthy backend.
SpecDisabled == InitDisabled /\ [][NextSaving]_vars

\* C28: with both enable flags false the middleware never touches the long-term
\* files: it reads nothing at construction and adds no long-term item, so both
\* sequences stay empty; the context has no long-term section; and no
\* invocation and no cleanup writes either file.
C28_DisabledUntouched ==
    /\ []((~config.enable_semantic_memory /\ ~config.enable_episodic_memory) =>
             /\ semantic_memory = <<>> /\ episodic_memory = <<>>
             /\ \A r \in ReqIds :
                    pc[r] = "handler" => Sections(request[r].system_prompt, "longterm") = {})
    /\ [][(~config.enable_semantic_memory /\ ~config.enable_episodic_memory) =>
              backend' = backend]_vars

\* ------------------------------------------------------ claims on inserts
\* The items of mem that rank above x by (importance, access_count).
Above(mem, x) == {i \in 1..Len(mem) : RankBelow(x, mem[i])}

\* C29 as claimed: when add_semantic_memory or add_episodic_memory returns, the
\* item just added is in its sequence, also when the insert triggered pruning.
C29_Step ==
    /\ (call'.op = "add_semantic" /\ call'.n = call.n + 1) =>
           Count(semantic_memory', call'.item) >= 1
    /\ (call'.op = "add_episodic" /\ call'.n = call.n + 1) =>
           Count(episodic_memory', call'.item) >= 1
C29_InsertKept == [][C29_Step]_vars

\* C29, amended: when add_episodic_memory returns, the item just added is in the
\* episodic sequence, also when the insert triggered pruning; when
\* add_semantic_memory returns, the item just added is in the semantic sequence
\* unless the insert triggered pruning and as many items as are kept rank
\* above it by (importance, access_count), and then it is not.
C29_AmendedStep ==
    /\ (call'.op = "add_semantic" /\ call'.n = call.n + 1) =>
           (Count(semantic_memory', call'.item) >= 1
                <=> ~(/\ Len(semantic_memory) + 1 > SemanticLimit
                      /\ Cardinality(Above(semantic_memory, call'.item)) >= SemanticKeep))
    /\ (call'.op = "add_episodic" /\ call'.n = call.n + 1) =>
           Count(episodic_memory', call'.item) >= 1
C29_InsertKeptUnlessOutranked == [][C29_AmendedStep]_vars

\* C29 witness: an insert into a full semantic sequence triggered pruning and
\* the item it added, of the higher importance, is among those kept.
C29_Witness ==
    /\ call.op = "add_semantic"
    /\ call.before >= SemanticLimit
    /\ Len(semantic_memory) = SemanticKeep
    /\ call.item.importance = 10
    /\ Count(semantic_memory, call.item) >= 1

\* ------------------------------------------------- the hybrid configuration
\* AgentMemoryMiddleware.wrap_model_call on a system prompt: the memory snippet
\* with the state's agent_memory, then the prompt if any, then the trailer.
AgentMemoryWrap(system_prompt, agent_memory) ==
    <<[kind |-> "agent_memory", text |-> agent_memory]>>
        \o system_prompt
        \o <<[kind |-> "trailer"]>>

\* In the hybrid list the handler of the layered middleware is the legacy
\* middleware: it rewrites the system prompt of the same request object and
\* calls the model.
LegacyWrapModelCall(r) ==
    /\ constructed
    /\ config.legacy_mode
    /\ pc[r] = "handler"
    /\ result.outcome = "pending"
    /\ request' = [request EXCEPT ![r].system_prompt =
                       AgentMemoryWrap(@, request[r].state.agent_memory)]
    /\ call' = [op |-> "legacy_wrap_model_call", n |-> call.n, r |-> r]
    /\ result' = [outcome |-> "model_called"]
    /\ UNCHANGED <<items, max_size, now, added, semantic_memory, episodic_memory,
                   constructed, config, backend, session_memory, last_save_time, pc,
                   before, extracted, log>>

NextHybrid ==
    \/ NextFactory
    \/ LegacyWrapModelCall("r1")

\* The configurations of the factory, the legacy middleware of a hybrid list
\* included.
SpecHybrid == InitFactory /\ [][NextHybrid]_vars

\* How many times a system prompt carries text as the legacy memory: in the
\* snippet of the legacy middleware and in the legacy part of a context.
LegacyTexts(system_prompt, text) ==
    Cardinality({i \in Blocks(system_prompt, "agent_memory") : system_prompt[i].text = text})
    + Cardinality({<<i, j>> \in Blocks(system_prompt, "context") \X (1..4) :
                      /\ j <= Len(system_prompt[i].parts)
                      /\ system_prompt[i].parts[j].name = "legacy"
                      /\ system_prompt[i].parts[j].text = text})

\* C30: in the hybrid configuration the system instructions that reach the
\* model hold the legacy memory text exactly once and the trailer exactly once.
C30_LegacyOnce ==
    (call.op = "legacy_wrap_model_call" /\ call.n = 1) =>
        LET system_prompt == request[call.r].system_prompt
            agent_memory == request[call.r].state.agent_memory
        IN  /\ Cardinality(Blocks(system_prompt, "trailer")) = 1
            /\ agent_memory # <<>> => LegacyTexts(system_prompt, agent_memory) = 1

====
